---- MODULE Spec2Model ----
(***************************************************************************)
(* Model of the cursor-settings doctor check of cursor-gastown:            *)
(* internal/doctor/cursor_settings_check.go (CursorSettingsCheck.Run,      *)
(* findSettingsFiles, checkSettings, getGitFileStatus, Fix).               *)
(*                                                                         *)
(* A path is the sequence of its components (/home/gt/mayor is             *)
(* <<"home","gt","mayor">>).  The file system is the pair (files, dirs).   *)
(* A tmux session name is the sequence of its dash-separated parts         *)
(* ("gt-rig1-witness" is <<"gt","rig1","witness">>).                       *)
(***************************************************************************)
EXTENDS Integers, Sequences, FiniteSets, TLC

VARIABLES
    townRoot,       \* ctx.TownRoot
    files,          \* existing regular files: path -> [readable, data, vcs]
    dirs,           \* existing directories (set of paths)
    sessions,       \* running tmux sessions (set of session names)
    staleSettings,  \* CursorSettingsCheck.staleSettings (cache filled by Run)
    result,         \* the CheckResult returned by the last Run
    fixOut,         \* outcome of the Fix just performed: errors, warnings, external calls
    lastOp,         \* the operation performed last: "none", "run", "fix" or "edit"
    prevFix,        \* summary of the Run-then-Fix pair the last Run directly followed
    pending,        \* the external call Run or Fix is blocked in, if any
    ensureOut,      \* the last call of the agent package: arguments and result
    eventsFile,     \* <townRoot>/.events.jsonl: missing, unreadable or present, and its lines
    seanceOut,      \* the last seance listing: flags, listed events, error
    stateDir,       \* the shell hooks' session state directory
    hookProcs,      \* the running shell-hook processes: environment, position, locals
    hookLog         \* what the shell hooks have done: launches, answers, completions

vars == <<townRoot, files, dirs, sessions, staleSettings, result, fixOut, lastOp, prevFix,
          pending, ensureOut, eventsFile, seanceOut, stateDir, hookProcs, hookLog>>

----------------------------------------------------------------------------
(* Bounds *)

\* at most this many artifact files exist in an initial workspace
MaxFiles == 2
\* at most this many injected I/O failures in one Fix call
MaxFaults == 1

----------------------------------------------------------------------------
(* Generic helpers *)

Last(s) == s[Len(s)]

\* filepath.Dir
Dir(p) == SubSeq(p, 1, Len(p) - 1)

\* filepath.Join(p, n1, n2, ...)
Join(p, names) == p \o names

\* all directories a path lies in, the root "/" (<<>>) included
Ancestors(p) == {SubSeq(p, 1, k) : k \in 0..(Len(p) - 1)}

\* directory names of the model's universe in byte order, the order in which
\* os.ReadDir returns entries
NameOrder ==
    <<".cursor", ".git", "crew", "daemon", "deacon", "docs", "m1", "mayor",
      "polecats", "refinery", "rig", "rig1", "rules", "witness">>

\* name[0] == '.'
DotPrefixed(name) == name \in {".cursor", ".git"}

\* strings.HasSuffix(name, ".cursor") for the last component of a path
NameHasSuffixDotCursor(name) == name \in {".cursor", "gt.cursor"}

\* strings.HasSuffix(path, suffix) where suffix holds no separator
HasSuffixCursor(p) == p # <<>> /\ NameHasSuffixDotCursor(Last(p))

HasSuffixCLAUDEmd(p) == p # <<>> /\ Last(p) = "CLAUDE.md"

\* strings.Contains(path, "/mayor/"): some component that is followed by a
\* separator is exactly "mayor"
ContainsMayorDir(p) == \E k \in 1..(Len(p) - 1) : p[k] = "mayor"

----------------------------------------------------------------------------
(* File system *)

\* fileExists (os.Stat succeeds and the entry is not a directory)
fileExists(fs, p) == p \in DOMAIN fs.files

\* dirExists
dirExists(fs, p) == p \in fs.dirs

\* the subdirectories of d, sorted by name (os.ReadDir entries with IsDir())
ReadDirDirs(fs, d) ==
    SelectSeq(NameOrder, LAMBDA n : Append(d, n) \in fs.dirs)

DirIsEmpty(fs, d) ==
    /\ \A p \in DOMAIN fs.files : Dir(p) # d
    /\ \A q \in fs.dirs : q = <<>> \/ Dir(q) # d

\* os.Remove on a regular file; ok is FALSE when the file is absent or the
\* unlink fails
RemoveFile(fs, p, fault) ==
    IF fileExists(fs, p) /\ ~fault
    THEN [ok |-> TRUE,
          fs |-> [fs EXCEPT !.files = [q \in (DOMAIN fs.files) \ {p} |-> fs.files[q]]]]
    ELSE [ok |-> FALSE, fs |-> fs]

\* os.Remove on a directory: succeeds only on an existing, empty directory
RemoveDir(fs, d) ==
    IF dirExists(fs, d) /\ d # <<>> /\ DirIsEmpty(fs, d)
    THEN [ok |-> TRUE, fs |-> [fs EXCEPT !.dirs = fs.dirs \ {d}]]
    ELSE [ok |-> FALSE, fs |-> fs]

\* os.MkdirAll
MkdirAll(fs, d) == [fs EXCEPT !.dirs = fs.dirs \cup Ancestors(d) \cup {d}]

WriteFile(fs, p, f) ==
    [fs EXCEPT !.files = [q \in (DOMAIN fs.files) \cup {p} |->
                             IF q = p THEN f ELSE fs.files[q]]]

----------------------------------------------------------------------------
(* JSON values: [t |-> type, v |-> value] *)

JMap(m) == [t |-> "map", v |-> m]
JList(l) == [t |-> "list", v |-> l]
JStr(s) == [t |-> "str", v |-> s]
JNum(n) == [t |-> "num", v |-> n]
JNull == [t |-> "null", v |-> 0]
\* bytes that are not JSON at all
NotJSON == [t |-> "garbage", v |-> 0]

HookEntry(cmd) == JMap("command" :> JStr(cmd))

\* the document written by createValidSettings
ValidSettings ==
    JMap(("version" :> JNum(1)) @@
         ("hooks" :> JMap(("beforeSubmitPrompt" :> JList(<<HookEntry("prompt.sh")>>)) @@
                          ("stop" :> JList(<<HookEntry("stop.sh")>>)))))

\* createStaleSettings(path, "stop")
SettingsMissingStop ==
    JMap(("version" :> JNum(1)) @@
         ("hooks" :> JMap("beforeSubmitPrompt" :> JList(<<HookEntry("prompt.sh")>>))))

----------------------------------------------------------------------------
(* Content Validator *)

hookHasCommandAnyEntry(hooks, hookName) ==
    /\ hookName \in DOMAIN hooks
    /\ hooks[hookName].t = "list"
    /\ Len(hooks[hookName].v) > 0

\* hookHasCommand: the hook is a non-empty list with an object entry that
\* carries a "command" key
hookHasCommand(hooks, hookName) ==
    /\ hookName \in DOMAIN hooks
    /\ hooks[hookName].t = "list"
    /\ Len(hooks[hookName].v) > 0
    /\ \E k \in 1..Len(hooks[hookName].v) :
          /\ hooks[hookName].v[k].t = "map"
          /\ "command" \in DOMAIN hooks[hookName].v[k].v

UnmarshalOKAnyBytes(data) == TRUE

\* json.Unmarshal(data, &actual) with actual a map[string]any: an error for
\* anything but an object or null; null leaves the map nil (empty)
UnmarshalOK(data) == data.t \in {"map", "null"}

UnmarshalMap(data) == IF data.t = "map" THEN data.v ELSE <<>>

\* checkSettings: the list of what is missing from the settings file at path
checkSettings(fs, path) ==
    IF ~fileExists(fs, path) \/ ~fs.files[path].readable THEN <<"unreadable">>
    ELSE IF ~UnmarshalOK(fs.files[path].data) THEN <<"invalid JSON">>
    ELSE LET actual == UnmarshalMap(fs.files[path].data)
             missing1 == IF "version" \in DOMAIN actual THEN <<>> ELSE <<"version">>
         IN  IF ~("hooks" \in DOMAIN actual /\ actual["hooks"].t = "map")
             THEN Append(missing1, "hooks")
             ELSE LET hooks == actual["hooks"].v
                      missing2 == IF hookHasCommand(hooks, "beforeSubmitPrompt")
                                  THEN missing1
                                  ELSE Append(missing1, "beforeSubmitPrompt hook")
                  IN  IF hookHasCommand(hooks, "stop")
                      THEN missing2
                      ELSE Append(missing2, "stop hook")

----------------------------------------------------------------------------
(* VCS Status Classifier *)

gitStatusUntracked == "untracked"
gitStatusTrackedClean == "tracked-clean"
gitStatusTrackedModified == "tracked-modified"
gitStatusUnknown == "unknown"

\* The answers git gives about one file:
\*   revparse: "ok" | "outside" | "fail"   git rev-parse --git-dir ("outside":
\*                                         the directory is in no checkout)
\*   lsfiles:  "listed" | "empty" | "fail" git ls-files <name>
\*   diff:     "same" | "differs" | "fail" git diff --quiet <name>
\*   cached:   "same" | "differs" | "fail" git diff --cached --quiet <name>
\* ("fail": the command could not be executed or exited abnormally)
Vcs(r, l, d, c) == [revparse |-> r, lsfiles |-> l, diff |-> d, cached |-> c]

VcsNotInRepo == Vcs("outside", "empty", "same", "same")
VcsUntracked == Vcs("ok", "empty", "same", "same")
VcsClean == Vcs("ok", "listed", "same", "same")
VcsModified == Vcs("ok", "listed", "differs", "same")
VcsStaged == Vcs("ok", "listed", "same", "differs")

getGitFileStatusWorkingTreeOnly(fs, filePath) ==
    LET q == fs.files[filePath].vcs
    IN  IF q.revparse # "ok" THEN gitStatusUnknown
        ELSE IF q.lsfiles = "fail" THEN gitStatusUnknown
        ELSE IF q.lsfiles = "empty" THEN gitStatusUntracked
        ELSE IF q.diff # "same" THEN gitStatusTrackedModified
        ELSE gitStatusTrackedClean

\* getGitFileStatus; cmd.Run() returns an error both for a non-zero exit and
\* for a command that could not run
getGitFileStatus(fs, filePath) ==
    LET q == fs.files[filePath].vcs
    IN  IF q.revparse # "ok" THEN gitStatusUnknown
        ELSE IF q.lsfiles = "fail" THEN gitStatusUnknown
        ELSE IF q.lsfiles = "empty" THEN gitStatusUntracked
        ELSE IF q.diff # "same" THEN gitStatusTrackedModified
        ELSE IF q.cached # "same" THEN gitStatusTrackedModified
        ELSE gitStatusTrackedClean

----------------------------------------------------------------------------
(* Topology Scanner *)

\* session.MayorSessionName(), session.DeaconSessionName()
MayorSessionName == <<"hq", "mayor">>
DeaconSessionName == <<"hq", "deacon">>
\* "" (no single session)
NoSession == <<>>

staleSettingsInfo(path, agentType, rigName, sessionName, missing, wrongLocation, gitStatus) ==
    [path |-> path, agentType |-> agentType, rigName |-> rigName,
     sessionName |-> sessionName, missing |-> missing,
     wrongLocation |-> wrongLocation, gitStatus |-> gitStatus]

\* one probe of findSettingsFiles: a one-element list when the file exists
Probe(fs, info) == IF fileExists(fs, info.path) THEN <<info>> ELSE <<>>

\* the per-member wrong-location probes of a pool directory (crew, polecats)
RECURSIVE MemberProbes(_, _, _, _, _)
MemberProbes(fs, poolDir, agentType, rigName, entries) ==
    IF entries = <<>> THEN <<>>
    ELSE LET name == Head(entries)
             sess == IF agentType = "crew"
                     THEN <<"gt", rigName, "crew", name>>
                     ELSE <<"gt", rigName, name>>
             here == IF name = ".cursor" THEN <<>>
                     ELSE Probe(fs, staleSettingsInfo(
                              Join(poolDir, <<name, ".cursor", "hooks.json">>),
                              agentType, rigName, sess, <<>>, TRUE, ""))
         IN  here \o MemberProbes(fs, poolDir, agentType, rigName, Tail(entries))

PoolProbesSharedOnly(fs, rigPath, rigName, poolName, agentType) ==
    Probe(fs, staleSettingsInfo(Join(rigPath, <<poolName, ".cursor", "hooks.json">>),
                                agentType, rigName, NoSession, <<>>, FALSE, ""))

\* the probes of one pool role: the shared canonical file, then the members
PoolProbes(fs, rigPath, rigName, poolName, agentType) ==
    LET poolDir == Join(rigPath, <<poolName>>)
    IN  Probe(fs, staleSettingsInfo(Join(poolDir, <<".cursor", "hooks.json">>),
                                   agentType, rigName, NoSession, <<>>, FALSE, ""))
        \o (IF dirExists(fs, poolDir)
            THEN MemberProbes(fs, poolDir, agentType, rigName, ReadDirDirs(fs, poolDir))
            ELSE <<>>)

\* the probes of one singleton-per-rig role (witness, refinery)
SingletonProbes(fs, rigPath, rigName, role) ==
    Probe(fs, staleSettingsInfo(Join(rigPath, <<role, ".cursor", "hooks.json">>),
                                role, rigName, <<"gt", rigName, role>>, <<>>, FALSE, ""))
    \o Probe(fs, staleSettingsInfo(Join(rigPath, <<role, "rig", ".cursor", "hooks.json">>),
                                   role, rigName, <<"gt", rigName, role>>, <<>>, TRUE, ""))

IsNonRigDotPrefixedOnly(rigName) == DotPrefixed(rigName)

\* the known non-rig directories
IsNonRig(rigName) ==
    \/ rigName \in {"mayor", "deacon", "daemon", ".git", "docs"}
    \/ DotPrefixed(rigName)

RECURSIVE RigProbes(_, _, _)
RigProbes(fs, root, entries) ==
    IF entries = <<>> THEN <<>>
    ELSE LET rigName == Head(entries)
             rigPath == Join(root, <<rigName>>)
             here == IF IsNonRig(rigName) THEN <<>>
                     ELSE SingletonProbes(fs, rigPath, rigName, "witness")
                          \o SingletonProbes(fs, rigPath, rigName, "refinery")
                          \o PoolProbes(fs, rigPath, rigName, "crew", "crew")
                          \o PoolProbes(fs, rigPath, rigName, "polecats", "polecat")
         IN  here \o RigProbes(fs, root, Tail(entries))

\* findSettingsFiles
findSettingsFiles(fs, root) ==
    LET staleTownRootSettings == Join(root, <<".cursor", "hooks.json">>)
        staleTownRootCLAUDEmd == Join(root, <<"CLAUDE.md">>)
        mayorSettings == Join(root, <<"mayor", ".cursor", "hooks.json">>)
        deaconSettings == Join(root, <<"deacon", ".cursor", "hooks.json">>)
        townLevel ==
            (IF fileExists(fs, staleTownRootSettings)
             THEN <<staleSettingsInfo(staleTownRootSettings, "mayor", "", MayorSessionName,
                        <<"should be at mayor/.cursor/, not town root">>, TRUE,
                        getGitFileStatus(fs, staleTownRootSettings))>>
             ELSE <<>>)
            \o (IF fileExists(fs, staleTownRootCLAUDEmd)
                THEN <<staleSettingsInfo(staleTownRootCLAUDEmd, "mayor", "", MayorSessionName,
                           <<"should be at mayor/CLAUDE.md, not town root">>, TRUE,
                           getGitFileStatus(fs, staleTownRootCLAUDEmd))>>
                ELSE <<>>)
            \o Probe(fs, staleSettingsInfo(mayorSettings, "mayor", "", MayorSessionName,
                                           <<>>, FALSE, ""))
            \o Probe(fs, staleSettingsInfo(deaconSettings, "deacon", "", DeaconSessionName,
                                           <<>>, FALSE, ""))
    IN  IF ~dirExists(fs, root) THEN townLevel
        ELSE townLevel \o RigProbes(fs, root, ReadDirDirs(fs, root))

----------------------------------------------------------------------------
(* Run *)

StatusOK == "OK"
StatusError == "Error"

HintFix == "Run 'gt doctor --fix' to update settings and restart affected agents"
HintManual == "Run 'gt doctor --fix' to fix safe issues. Files with local modifications require manual review."

\* the status message of a wrong-location detail line
statusMsg(gitStatus) ==
    CASE gitStatus = gitStatusUntracked -> "wrong location, untracked (safe to delete)"
      [] gitStatus = gitStatusTrackedClean -> "wrong location, tracked but unmodified (safe to delete)"
      [] gitStatus = gitStatusTrackedModified -> "wrong location, tracked with local modifications (manual review needed)"
      [] OTHER -> "wrong location (inside source repo)"

\* the loop of Run over settingsFiles: the findings kept and their detail lines
RECURSIVE RunLoop(_, _, _)
RunLoop(fs, settingsFiles, acc) ==
    IF settingsFiles = <<>> THEN acc
    ELSE LET sf == Head(settingsFiles)
             rest == Tail(settingsFiles)
         IN  IF sf.wrongLocation
             THEN LET st == getGitFileStatus(fs, sf.path)
                  IN  RunLoop(fs, rest,
                        [stale |-> Append(acc.stale, [sf EXCEPT !.gitStatus = st]),
                         details |-> Append(acc.details,
                                       [path |-> sf.path, msg |-> statusMsg(st), missing |-> <<>>]),
                         hasModifiedFiles |-> acc.hasModifiedFiles
                                              \/ st = gitStatusTrackedModified])
             ELSE LET missing == checkSettings(fs, sf.path)
                  IN  IF Len(missing) > 0
                      THEN RunLoop(fs, rest,
                             [stale |-> Append(acc.stale, [sf EXCEPT !.missing = missing]),
                              details |-> Append(acc.details,
                                            [path |-> sf.path, msg |-> "missing", missing |-> missing]),
                              hasModifiedFiles |-> acc.hasModifiedFiles])
                      ELSE RunLoop(fs, rest, acc)

RunOutcomeCountsFiles(fs, root) ==
    LET r == RunLoop(fs, findSettingsFiles(fs, root),
                     [stale |-> <<>>, details |-> <<>>, hasModifiedFiles |-> FALSE])
    IN  [stale |-> r.stale,
         result |-> IF Len(r.stale) = 0
                    THEN [status |-> StatusOK, count |-> 0, details |-> <<>>, fixHint |-> ""]
                    ELSE [status |-> StatusError,
                          count |-> Len(findSettingsFiles(fs, root)),
                          details |-> r.details,
                          fixHint |-> IF r.hasModifiedFiles THEN HintManual ELSE HintFix]]

RunOutcomeHintForAnyWrongLocation(fs, root) ==
    LET r == RunLoop(fs, findSettingsFiles(fs, root),
                     [stale |-> <<>>, details |-> <<>>, hasModifiedFiles |-> FALSE])
    IN  [stale |-> r.stale,
         result |-> IF Len(r.stale) = 0
                    THEN [status |-> StatusOK, count |-> 0, details |-> <<>>, fixHint |-> ""]
                    ELSE [status |-> StatusError, count |-> Len(r.stale),
                          details |-> r.details,
                          fixHint |-> IF \E i \in 1..Len(r.stale) : r.stale[i].wrongLocation
                                      THEN HintManual ELSE HintFix]]

\* what Run computes: the new cache and the CheckResult
RunOutcome(fs, root) ==
    LET r == RunLoop(fs, findSettingsFiles(fs, root),
                     [stale |-> <<>>, details |-> <<>>, hasModifiedFiles |-> FALSE])
    IN  [stale |-> r.stale,
         result |-> IF Len(r.stale) = 0
                    THEN [status |-> StatusOK, count |-> 0, details |-> <<>>, fixHint |-> ""]
                    ELSE [status |-> StatusError, count |-> Len(r.stale),
                          details |-> r.details,
                          fixHint |-> IF r.hasModifiedFiles THEN HintManual ELSE HintFix]]

----------------------------------------------------------------------------
(* External interfaces used by Fix *)

\* session.Prefix and session.HQPrefix
Prefix == "gt"
HQPrefix == "hq"

\* strings.HasPrefix(sess, session.Prefix) || strings.HasPrefix(sess, session.HQPrefix)
IsGasTownSession(sess) == sess # <<>> /\ sess[1] \in {Prefix, HQPrefix}

TextData == [t |-> "text", v |-> 0]

NewFile(data) == [readable |-> TRUE, data |-> data, vcs |-> VcsNotInRepo]

\* cursor.EnsureSettingsForRole(workDir, role): creates workDir/.cursor/hooks.json
\* and workDir/.cursor/rules/gastown.mdc unless they exist; fault makes it fail
EnsureSettingsForRole(fs, workDir, role, fault) ==
    IF fault THEN [ok |-> FALSE, fs |-> fs]
    ELSE LET hooksPath == Join(workDir, <<".cursor", "hooks.json">>)
             rulesPath == Join(workDir, <<".cursor", "rules", "gastown.mdc">>)
             fs1 == MkdirAll(fs, Dir(rulesPath))
             fs2 == IF fileExists(fs1, rulesPath) THEN fs1
                    ELSE WriteFile(fs1, rulesPath, NewFile(TextData))
             fs3 == IF fileExists(fs2, hooksPath) THEN fs2
                    ELSE WriteFile(fs2, hooksPath, NewFile(ValidSettings))
         IN  [ok |-> TRUE, fs |-> fs3]

\* templates.CreateMayorCLAUDEmd(mayorDir, ...): writes mayorDir/CLAUDE.md; fails
\* on a fault or when mayorDir does not exist
CreateMayorCLAUDEmd(fs, mayorDir, fault) ==
    IF fault \/ ~dirExists(fs, mayorDir) THEN [ok |-> FALSE, fs |-> fs]
    ELSE [ok |-> TRUE, fs |-> WriteFile(fs, Join(mayorDir, <<"CLAUDE.md">>), NewFile(TextData))]

----------------------------------------------------------------------------
(* Fix *)

\* an injected failure: op is "remove", "mkdir", "ensure" or "claude", at is
\* the path the operation is applied to
Fault(op, at) == [op |-> op, at |-> at]

\* one external call made by Fix while it handles finding number i
Call(i, op, arg, ok) == [i |-> i, op |-> op, arg |-> arg, ok |-> ok]

\* one entry of the errors list of Fix, added while it handles finding number i
FixError(i, kind) == [i |-> i, kind |-> kind]

mayorDirIsTownRoot(root) == root

\* mayorDir := filepath.Join(ctx.TownRoot, "mayor")
mayorDir(root) == Join(root, <<"mayor">>)

agentWorkDirIsCursorDir(path) == Dir(path)

\* workDir := filepath.Dir(cursorDir), cursorDir being filepath.Dir(sf.path)
agentWorkDir(path) == Dir(Dir(path))

ShouldCycleAnyCaller(restart, agentType) ==
    agentType \in {"witness", "refinery", "deacon", "mayor"}

\* ctx.RestartSessions and the role is a patrol role
ShouldCycle(restart, agentType) ==
    restart /\ agentType \in {"witness", "refinery", "deacon", "mayor"}

\* the skip test at the head of the loop of Fix
SkipsFinding(sf) == sf.wrongLocation /\ sf.gitStatus = gitStatusTrackedModified

\* lines 462-470: list the sessions, kill every gt-* and hq-* session
CycleAllSessions(st, i) ==
    [st EXCEPT
       !.sessions = {sess \in @ : ~IsGasTownSession(sess)},
       !.calls = @ \o <<Call(i, "list", st.sessions, TRUE),
                        Call(i, "killall", {sess \in st.sessions : IsGasTownSession(sess)}, TRUE)>>]

\* lines 441-446: mayor settings at town root are created at mayor/.cursor/
RecreateMayorSettings(st, i, dir, mkdirOK, ens) ==
    IF ~mkdirOK
    THEN [st EXCEPT !.calls = Append(@, Call(i, "mkdir", dir, FALSE))]
    ELSE [st EXCEPT
            !.fs = ens.fs,
            !.calls = @ \o <<Call(i, "mkdir", dir, TRUE),
                             Call(i, "ensure", <<dir, "mayor">>, ens.ok)>>]

\* lines 448-460: mayor CLAUDE.md at town root is created at mayor/
RecreateMayorCLAUDEmd(st, i, dir, cm) ==
    [st EXCEPT
       !.fs = cm.fs,
       !.errors = IF cm.ok THEN @ ELSE Append(@, FixError(i, "create mayor/CLAUDE.md")),
       !.calls = Append(@, Call(i, "claude", dir, cm.ok))]

\* lines 438-471: what Fix does after it deleted a wrong-location file
FixWrongLocation(st, i, sf, root, faults) ==
    LET cursorDir == Dir(sf.path)
        dir == mayorDir(root)
        st1 == IF sf.agentType = "mayor" /\ HasSuffixCursor(cursorDir)
                  /\ ~ContainsMayorDir(sf.path)
               THEN RecreateMayorSettings(st, i, dir, Fault("mkdir", dir) \notin faults,
                        EnsureSettingsForRole(MkdirAll(st.fs, dir), dir, "mayor",
                                              Fault("ensure", dir) \in faults))
               ELSE st
        st2 == IF sf.agentType = "mayor" /\ HasSuffixCLAUDEmd(sf.path)
                  /\ ~ContainsMayorDir(sf.path)
               THEN RecreateMayorCLAUDEmd(st1, i, dir,
                        CreateMayorCLAUDEmd(st1.fs, dir, Fault("claude", dir) \in faults))
               ELSE st1
    IN  CycleAllSessions(st2, i)

\* lines 481-493: cycle the session of a patrol role after a content fix
CycleOwnSession(st, i, sf, restart) ==
    IF ~ShouldCycle(restart, sf.agentType) THEN st
    ELSE IF sf.sessionName \in st.sessions
         THEN [st EXCEPT
                 !.sessions = @ \ {sf.sessionName},
                 !.calls = @ \o <<Call(i, "has", sf.sessionName, TRUE),
                                  Call(i, "kill", sf.sessionName, TRUE)>>]
         ELSE [st EXCEPT !.calls = Append(@, Call(i, "has", sf.sessionName, FALSE))]

\* lines 474-479: recreate the settings; ens is the outcome of
\* cursor.EnsureSettingsForRole(workDir, sf.agentType)
RecreateSettings(st, i, sf, restart, workDir, ens) ==
    IF ~ens.ok
    THEN [st EXCEPT !.errors = Append(@, FixError(i, "recreate")),
                    !.calls = Append(@, Call(i, "ensure", <<workDir, sf.agentType>>, FALSE))]
    ELSE CycleOwnSession(
             [st EXCEPT !.fs = ens.fs,
                        !.calls = Append(@, Call(i, "ensure", <<workDir, sf.agentType>>, TRUE))],
             i, sf, restart)

\* lines 474-493: what Fix does after it deleted a content-incomplete file
FixContent(st, i, sf, restart, faults) ==
    RecreateSettings(st, i, sf, restart, agentWorkDir(sf.path),
        EnsureSettingsForRole(st.fs, agentWorkDir(sf.path), sf.agentType,
                              Fault("ensure", agentWorkDir(sf.path)) \in faults))

\* lines 433-435: the file is gone; remove its directory, best effort
\* (rd is the outcome of os.Remove(cursorDir))
AfterRemove(st, i, sf, rd) ==
    [st EXCEPT !.fs = rd.fs,
               !.calls = @ \o <<Call(i, "remove", sf.path, TRUE),
                                Call(i, "rmdir", Dir(sf.path), rd.ok)>>]

\* lines 427-493: delete the stale file (rm is the outcome of
\* os.Remove(sf.path)), then repair
FixDelete(st, i, sf, root, restart, faults, rm) ==
    IF ~rm.ok
    THEN [st EXCEPT !.errors = Append(@, FixError(i, "delete")),
                    !.calls = Append(@, Call(i, "remove", sf.path, FALSE))]
    ELSE IF sf.wrongLocation
         THEN FixWrongLocation(AfterRemove(st, i, sf, RemoveDir(rm.fs, Dir(sf.path))),
                               i, sf, root, faults)
         ELSE FixContent(AfterRemove(st, i, sf, RemoveDir(rm.fs, Dir(sf.path))),
                         i, sf, restart, faults)

FixOneNoSkip(st, i, sf, root, restart, faults) ==
    FixDelete(st, i, sf, root, restart, faults,
              RemoveFile(st.fs, sf.path, Fault("remove", sf.path) \in faults))

FixOneDeletesKnownSafeOnly(st, i, sf, root, restart, faults) ==
    IF sf.wrongLocation /\ sf.gitStatus \notin {gitStatusUntracked, gitStatusTrackedClean}
    THEN [st EXCEPT !.skipped = Append(@, sf.path)]
    ELSE FixDelete(st, i, sf, root, restart, faults,
                   RemoveFile(st.fs, sf.path, Fault("remove", sf.path) \in faults))

\* one iteration of the loop of Fix (lines 420-494)
FixOne(st, i, sf, root, restart, faults) ==
    IF SkipsFinding(sf)
    THEN [st EXCEPT !.skipped = Append(@, sf.path)]
    ELSE FixDelete(st, i, sf, root, restart, faults,
                   RemoveFile(st.fs, sf.path, Fault("remove", sf.path) \in faults))

RECURSIVE FixLoop(_, _, _, _, _, _)
FixLoop(st, i, stale, root, restart, faults) ==
    IF i > Len(stale) THEN st
    ELSE FixLoop(FixOne(st, i, stale[i], root, restart, faults),
                 i + 1, stale, root, restart, faults)

FixOutcomeInvalidatesAtEnd(fs, sess, stale, root, restart, faults) ==
    CycleAllSessions(
        FixLoop([fs |-> fs, sessions |-> sess, errors |-> <<>>, skipped |-> <<>>,
                 calls |-> <<>>],
                1, stale, root, restart, faults),
        0)

\* what Fix computes from the cached findings: the new file system and
\* sessions, the collected errors (empty: Fix returns nil), the warnings
\* printed for skipped files, and the external calls in order
FixOutcome(fs, sess, stale, root, restart, faults) ==
    FixLoop([fs |-> fs, sessions |-> sess, errors |-> <<>>, skipped |-> <<>>,
             calls |-> <<>>],
            1, stale, root, restart, faults)

\* the operations of a Fix over the findings stale whose failure can be
\* injected: the os.Remove of a file that exists, the regeneration calls of a
\* finding that is not skipped
FaultPoints(fs, stale, root) ==
    UNION {
      IF SkipsFinding(stale[i]) THEN {}
      ELSE (IF fileExists(fs, stale[i].path) THEN {Fault("remove", stale[i].path)} ELSE {})
           \cup (IF ~stale[i].wrongLocation
                 THEN {Fault("ensure", Dir(Dir(stale[i].path)))}
                 ELSE IF stale[i].agentType # "mayor" THEN {}
                 ELSE IF Last(stale[i].path) = "CLAUDE.md"
                 THEN {Fault("claude", Join(root, <<"mayor">>))}
                 ELSE {Fault("mkdir", Join(root, <<"mayor">>)),
                       Fault("ensure", Join(root, <<"mayor">>))})
      : i \in 1..Len(stale)}

\* the values of ctx.RestartSessions to consider: Fix reads the flag only
\* after it recreated the settings of a content-incomplete finding
RestartChoices(stale) ==
    IF \E i \in 1..Len(stale) : ~stale[i].wrongLocation THEN BOOLEAN ELSE {FALSE}

----------------------------------------------------------------------------
(* State outside the whole-handler view of the doctor check *)

\* no external call is in flight
NoCall == [call |-> "none", restart |-> FALSE, faults |-> {}]

\* no call of the agent package was made
NoEnsure == [fn |-> "none", workDir |-> <<>>, role |-> "", agentName |-> "", ok |-> TRUE]

\* the events file in its three states
MissingEvents == [state |-> "missing", lines |-> <<>>]
UnreadableEvents == [state |-> "unreadable", lines |-> <<>>]
EventsOf(lines) == [state |-> "present", lines |-> lines]

\* no seance listing was asked for
NoListing == [called |-> FALSE, role |-> <<>>, rig |-> <<>>, recent |-> 0,
              out |-> <<>>, ok |-> TRUE]

\* the hook processes that can run at the same time
MaxProcs == 2
Pids == 1..MaxProcs

\* a session without state directory, no hook running, nothing done yet
NoStateDir == [exists |-> FALSE, mailChecked |-> FALSE, cmdFile |-> "absent", cmdCount |-> 0]
IdleHook == [phase |-> "idle", role |-> FALSE, pc |-> "done", count |-> 0]
NoHookLog == [before |-> 0, after |-> 0, mail |-> 0, costs |-> 0, allowed |-> 0,
              counted |-> 0]

agentVars == <<ensureOut>>
seanceVars == <<eventsFile, seanceOut>>
hookVars == <<stateDir, hookProcs, hookLog>>

\* the variables the whole-handler actions of the doctor check leave alone
otherVars == <<pending, agentVars, seanceVars, hookVars>>

\* their values while only whole handlers run
OtherIdle ==
    /\ pending = NoCall
    /\ ensureOut = NoEnsure
    /\ eventsFile = MissingEvents
    /\ seanceOut = NoListing
    /\ stateDir = NoStateDir
    /\ hookProcs = [p \in Pids |-> IdleHook]
    /\ hookLog = NoHookLog

----------------------------------------------------------------------------
(* Initial workspaces *)

\* the workspace roots considered: /home/gt and /home/mayor/gt
Roots == {<<"home", "gt">>, <<"home", "mayor", "gt">>}

HooksRel(d) == Join(d, <<".cursor", "hooks.json">>)

\* known-incorrect artifact locations, relative to the root: the two root-level
\* ones and one inside a rig (the checkout of a singleton role)
WrongRel ==
    {HooksRel(<<>>), <<"CLAUDE.md">>, HooksRel(<<"rig1", "witness", "rig">>)}

\* canonical artifact locations, relative to the root: a patrol role (mayor)
\* and a shared-pool role (crew)
CanonRel ==
    {HooksRel(<<"mayor">>), HooksRel(<<"rig1", "crew">>)}

\* the states a file at a known-incorrect location starts in
WrongFiles(rel) ==
    {[readable |-> TRUE,
      data |-> IF Last(rel) = "CLAUDE.md" THEN TextData ELSE ValidSettings,
      vcs |-> v] : v \in {VcsNotInRepo, VcsUntracked, VcsClean, VcsModified}}

\* the states a file at a canonical location starts in
CanonFiles ==
    {[readable |-> TRUE, data |-> d, vcs |-> VcsNotInRepo]
        : d \in {ValidSettings, SettingsMissingStop}}

InitFileChoices(rel) == IF rel \in WrongRel THEN WrongFiles(rel) ELSE CanonFiles

\* the sessions that can run
AllSessions ==
    {MayorSessionName, DeaconSessionName, <<"gt", "rig1", "witness">>,
     <<"editor">>}

NoResult == [status |-> "none", count |-> 0, details |-> <<>>, fixHint |-> ""]
NoPrevFix == [valid |-> FALSE, errors |-> 0, skipped |-> 0, wrong |-> 0, content |-> 0]
NoFix == [called |-> FALSE, afterRun |-> FALSE, restart |-> FALSE, errors |-> <<>>, skipped |-> <<>>,
          calls |-> <<>>]

Init ==
    /\ townRoot \in Roots
    /\ \E S \in SUBSET (WrongRel \cup CanonRel) :
          /\ Cardinality(S) <= MaxFiles
          /\ \E f \in [S -> UNION {InitFileChoices(rel) : rel \in S}] :
                /\ \A rel \in S : f[rel] \in InitFileChoices(rel)
                /\ files = [p \in {Join(townRoot, rel) : rel \in S} |->
                              f[SubSeq(p, Len(townRoot) + 1, Len(p))]]
                /\ dirs = Ancestors(townRoot) \cup {townRoot}
                          \cup UNION {Ancestors(Join(townRoot, rel)) : rel \in S}
    /\ sessions = AllSessions
    /\ staleSettings = <<>>
    /\ result = NoResult
    /\ fixOut = NoFix
    /\ lastOp = "none"
    /\ prevFix = NoPrevFix
    /\ OtherIdle

----------------------------------------------------------------------------
(* Actions *)

FS == [files |-> files, dirs |-> dirs]

RunDeletesUntracked ==
    \E out \in {RunOutcome(FS, townRoot)} :
        /\ staleSettings' = out.stale
        /\ result' = out.result
        /\ fixOut' = NoFix
        /\ lastOp' = "run"
        /\ prevFix' = NoPrevFix
        /\ files' = [p \in {q \in DOMAIN files :
                              \A i \in 1..Len(out.stale) :
                                 out.stale[i].path = q
                                 => out.stale[i].gitStatus # gitStatusUntracked}
                       |-> files[p]]
        /\ UNCHANGED <<townRoot, dirs, sessions>>
        /\ UNCHANGED otherVars

\* what CursorSettingsCheck.Run(ctx) does to the check and the workspace
RunEffect ==
    \E out \in {RunOutcome(FS, townRoot)} :
        /\ staleSettings' = out.stale
        /\ result' = out.result
        /\ fixOut' = NoFix
        /\ lastOp' = "run"
        /\ prevFix' = IF lastOp = "fix" /\ fixOut.afterRun
                      THEN [valid |-> TRUE,
                            errors |-> Len(fixOut.errors),
                            skipped |-> Len(fixOut.skipped),
                            wrong |-> Cardinality({i \in 1..Len(staleSettings) :
                                                     staleSettings[i].wrongLocation}),
                            content |-> Cardinality({i \in 1..Len(staleSettings) :
                                                       ~staleSettings[i].wrongLocation})]
                      ELSE NoPrevFix
        /\ UNCHANGED <<townRoot, files, dirs, sessions>>

\* CursorSettingsCheck.Run(ctx)
Run == RunEffect /\ UNCHANGED otherVars

\* what CursorSettingsCheck.Fix(ctx) does with ctx.RestartSessions = restart,
\* under the I/O failures faults
FixEffect(restart, faults) ==
    \E out \in {FixOutcome(FS, sessions, staleSettings, townRoot, restart, faults)} :
        /\ files' = out.fs.files
        /\ dirs' = out.fs.dirs
        /\ sessions' = out.sessions
        /\ fixOut' = [called |-> TRUE, afterRun |-> (lastOp = "run"), restart |-> restart, errors |-> out.errors,
                      skipped |-> out.skipped, calls |-> out.calls]
        /\ lastOp' = "fix"
        /\ prevFix' = NoPrevFix
        /\ UNCHANGED <<townRoot, staleSettings, result>>

\* CursorSettingsCheck.Fix(ctx)
Fix(restart, faults) == FixEffect(restart, faults) /\ UNCHANGED otherVars

FixCall ==
    \E restart \in RestartChoices(staleSettings) :
       \E faults \in SUBSET FaultPoints(FS, staleSettings, townRoot) :
          /\ Cardinality(faults) <= MaxFaults
          /\ Fix(restart, faults)

\* the user edits a tracked, unmodified file at a known-incorrect location
UserEdit ==
    \E p \in DOMAIN files :
       /\ files[p].vcs = VcsClean
       /\ files' = [files EXCEPT ![p].vcs = VcsModified]
       /\ lastOp' = "edit"
       /\ UNCHANGED <<townRoot, dirs, sessions, staleSettings, result, fixOut, prevFix>>
       /\ UNCHANGED otherVars

Next == Run \/ FixCall \/ UserEdit

Spec == Init /\ [][Next]_vars

----------------------------------------------------------------------------
(* Reading the record of a Fix *)

Findings == 1..Len(staleSettings)

\* the positions in calls of the calls op made for finding i
CallsOf(calls, i, op) == {k \in 1..Len(calls) : calls[k].i = i /\ calls[k].op = op}

\* the step is a call of Fix
IsFixStep == lastOp' = "fix"

RootHooksPath == Join(townRoot, <<".cursor", "hooks.json">>)
RootCLAUDEmdPath == Join(townRoot, <<"CLAUDE.md">>)

----------------------------------------------------------------------------
(* C1..C10: the reconciliation executor *)

\* C1: Fix never deletes a wrong-location finding recorded as
\* tracked-modified: the file exists, unchanged, after Fix, a warning names it
\* and no error of Fix belongs to it.
C1_ModifiedIsKept ==
    [][IsFixStep =>
         \A i \in Findings :
            (staleSettings[i].wrongLocation
             /\ staleSettings[i].gitStatus = gitStatusTrackedModified)
            => /\ staleSettings[i].path \in DOMAIN files
               /\ staleSettings[i].path \in DOMAIN files'
               /\ files'[staleSettings[i].path] = files[staleSettings[i].path]
               /\ \E k \in 1..Len(fixOut'.skipped) : fixOut'.skipped[k] = staleSettings[i].path
               /\ \A k \in 1..Len(fixOut'.errors) : fixOut'.errors[k].i # i
               /\ \A k \in 1..Len(fixOut'.calls) : fixOut'.calls[k].i # i]_vars

\* a Fix that skipped a tracked-modified file and deleted another finding
C1_Witness ==
    /\ lastOp = "fix"
    /\ \E i \in Findings :
          /\ staleSettings[i].wrongLocation
          /\ staleSettings[i].gitStatus = gitStatusTrackedModified
          /\ staleSettings[i].path \in DOMAIN files
          /\ \E k \in 1..Len(fixOut.skipped) : fixOut.skipped[k] = staleSettings[i].path
    /\ \E k \in 1..Len(fixOut.calls) : fixOut.calls[k].op = "remove" /\ fixOut.calls[k].ok

\* C2: every wrong-location finding recorded as untracked, tracked-clean or
\* unknown is deleted by Fix (os.Remove is called on it; when that succeeds the
\* file is gone after Fix), the removal of its parent directory is attempted
\* next, and a failure of that removal adds no error.
C2_OtherStatusesAreDeleted ==
    [][IsFixStep =>
         \A i \in Findings :
            (staleSettings[i].wrongLocation
             /\ staleSettings[i].gitStatus \in
                   {gitStatusUntracked, gitStatusTrackedClean, gitStatusUnknown})
            => LET calls == fixOut'.calls
                   rm == CallsOf(calls, i, "remove")
               IN  /\ Cardinality(rm) = 1
                   /\ \A k \in rm :
                         /\ calls[k].arg = staleSettings[i].path
                         /\ calls[k].ok => staleSettings[i].path \in DOMAIN files
                         /\ calls[k].ok
                            => /\ staleSettings[i].path \notin DOMAIN files'
                               /\ k < Len(calls)
                               /\ calls[k + 1] = Call(i, "rmdir", Dir(staleSettings[i].path),
                                                      calls[k + 1].ok)
                               /\ \A e \in 1..Len(fixOut'.errors) :
                                     fixOut'.errors[e].i = i
                                     => /\ fixOut'.errors[e].kind = "create mayor/CLAUDE.md"
                                        /\ \E c \in CallsOf(calls, i, "claude") : ~calls[c].ok
                         /\ ~calls[k].ok
                            => \E e \in 1..Len(fixOut'.errors) :
                                  fixOut'.errors[e] = FixError(i, "delete")]_vars

\* a Fix that deleted a wrong-location file of unknown status, could not
\* remove its parent directory, and returned nil
C2_Witness ==
    /\ lastOp = "fix"
    /\ fixOut.errors = <<>>
    /\ \E i \in Findings :
          /\ staleSettings[i].wrongLocation
          /\ staleSettings[i].gitStatus = gitStatusUnknown
          /\ staleSettings[i].path \notin DOMAIN files
          /\ \E k \in CallsOf(fixOut.calls, i, "rmdir") : ~fixOut.calls[k].ok

\* C3: a Run directly after a Fix that directly followed a Run, returned nil
\* and skipped no tracked-modified finding, returns OK.
C3_Convergence ==
    (prevFix.valid /\ prevFix.errors = 0 /\ prevFix.skipped = 0)
    => result.status = StatusOK

\* Run, Fix, Run over a wrong-location and a content-incomplete finding
C3_Witness ==
    /\ lastOp = "run"
    /\ prevFix.valid /\ prevFix.errors = 0 /\ prevFix.skipped = 0
    /\ prevFix.wrong >= 1 /\ prevFix.content >= 1
    /\ result.status = StatusOK

\* C4: after a Run that returned OK, Fix changes no file, no directory and no
\* session and returns nil.
C4_FixAfterOKIsNoOp ==
    [][(IsFixStep /\ result.status = StatusOK)
       => /\ files' = files
          /\ dirs' = dirs
          /\ sessions' = sessions
          /\ fixOut'.errors = <<>>
          /\ fixOut'.calls = <<>>]_vars

\* a Fix right after a Run that returned OK on a workspace that holds files
\* and running sessions
C4_Witness ==
    /\ lastOp = "fix"
    /\ fixOut.afterRun
    /\ result.status = StatusOK
    /\ DOMAIN files # {}
    /\ \E sess \in sessions : IsGasTownSession(sess)

\* C5: within one Fix call the workspace-wide session invalidation (list the
\* sessions, terminate every gt-*/hq-* session) is performed at most once.
C5_InvalidationAtMostOnce ==
    Cardinality({k \in 1..Len(fixOut.calls) : fixOut.calls[k].op = "list"}) <= 1

\* C6: Fix performs the workspace-wide session invalidation only for a deleted
\* root-level stale artifact (root .cursor/hooks.json, root CLAUDE.md).
C6_InvalidationOnlyForRootArtifacts ==
    \A k \in 1..Len(fixOut.calls) :
       fixOut.calls[k].op \in {"list", "killall"}
       => /\ fixOut.calls[k].i \in Findings
          /\ staleSettings[fixOut.calls[k].i].path \in {RootHooksPath, RootCLAUDEmdPath}

\* C7: when Fix deleted a root-level stale artifact it regenerates the
\* artifact at the mayor's location: mayor/.cursor/ settings (MkdirAll of
\* mayor/, then the provisioning call) for root .cursor/hooks.json, and
\* mayor/CLAUDE.md for root CLAUDE.md.
C7_RootArtifactRegenerated ==
    \A k \in 1..Len(fixOut.calls) :
       (fixOut.calls[k].op = "remove" /\ fixOut.calls[k].ok)
       => LET i == fixOut.calls[k].i
              mk == CallsOf(fixOut.calls, i, "mkdir")
          IN  /\ fixOut.calls[k].arg = RootHooksPath
                 => /\ mk # {}
                    /\ \A m \in mk :
                          fixOut.calls[m].ok
                          => \E e \in CallsOf(fixOut.calls, i, "ensure") :
                                fixOut.calls[e].arg = <<Join(townRoot, <<"mayor">>), "mayor">>
              /\ fixOut.calls[k].arg = RootCLAUDEmdPath
                 => \E c \in CallsOf(fixOut.calls, i, "claude") :
                       fixOut.calls[c].arg = Join(townRoot, <<"mayor">>)

C10_FailuresAreCollected ==
    /\ \A i \in Findings :
          fixOut.called
          => \/ \E k \in 1..Len(fixOut.skipped) : fixOut.skipped[k] = staleSettings[i].path
             \/ CallsOf(fixOut.calls, i, "remove") # {}
    /\ \A k \in 1..Len(fixOut.calls) :
          (fixOut.calls[k].op \in {"remove", "mkdir", "ensure", "claude"} /\ ~fixOut.calls[k].ok)
          => \E e \in 1..Len(fixOut.errors) : fixOut.errors[e].i = fixOut.calls[k].i
    /\ \A e \in 1..Len(fixOut.errors) :
          \E k \in 1..Len(fixOut.calls) :
             /\ fixOut.calls[k].i = fixOut.errors[e].i
             /\ fixOut.calls[k].op \in {"remove", "ensure", "claude"}
             /\ ~fixOut.calls[k].ok

----------------------------------------------------------------------------
(* C11..C12: errors and the cache of Fix *)

\* C11: Fix returns nil only if no delete and no provisioning operation
\* failed: every failed os.Remove of a finding, every failed
\* EnsureSettingsForRole (content-incomplete and root-level alike) and every
\* failed CreateMayorCLAUDEmd is surfaced in the returned error.
C11_EveryFailureIsSurfaced ==
    fixOut.errors = <<>>
    => \A k \in 1..Len(fixOut.calls) :
          fixOut.calls[k].op \in {"remove", "ensure", "claude"} => fixOut.calls[k].ok

\* C12: a Fix that finds no cached findings re-derives them from the
\* workspace and repairs them: every finding a scan of the workspace yields
\* is skipped with a warning or has os.Remove called on it.
C12_FixRederivesFindings ==
    [][(IsFixStep /\ staleSettings = <<>>)
       => \A sf \in {RunOutcome(FS, townRoot).stale[i] :
                       i \in 1..Len(RunOutcome(FS, townRoot).stale)} :
             \/ \E k \in 1..Len(fixOut'.skipped) : fixOut'.skipped[k] = sf.path
             \/ \E k \in 1..Len(fixOut'.calls) :
                   fixOut'.calls[k].op = "remove" /\ fixOut'.calls[k].arg = sf.path]_vars

----------------------------------------------------------------------------
(* The layout of a workspace, as the scanner's documentation gives it *)

\* the path p relative to the workspace root
Rel(root, p) == SubSeq(p, Len(root) + 1, Len(p))

\* p lies below the workspace root
IsBelow(root, p) == Len(p) > Len(root) /\ SubSeq(p, 1, Len(root)) = root

\* a top-level directory that is not a rig
TopLevelNonRig(name) == name \in {"mayor", "deacon", "daemon", "docs"} \/ DotPrefixed(name)

\* a canonical artifact location, relative to the root: mayor/.cursor/,
\* deacon/.cursor/, <rig>/{witness,refinery,crew,polecats}/.cursor/
CanonicalShape(rel) ==
    \/ rel \in {<<"mayor", ".cursor", "hooks.json">>, <<"deacon", ".cursor", "hooks.json">>}
    \/ /\ Len(rel) = 4
       /\ ~TopLevelNonRig(rel[1])
       /\ rel[2] \in {"witness", "refinery", "crew", "polecats"}
       /\ rel[3] = ".cursor" /\ rel[4] = "hooks.json"

\* a known-incorrect artifact location, relative to the root: the two root
\* paths, <rig>/{witness,refinery}/rig/.cursor/ and
\* <rig>/{crew,polecats}/<member>/.cursor/ for a member other than .cursor
WrongShape(rel) ==
    \/ rel \in {<<".cursor", "hooks.json">>, <<"CLAUDE.md">>}
    \/ /\ Len(rel) = 5
       /\ ~TopLevelNonRig(rel[1])
       /\ rel[4] = ".cursor" /\ rel[5] = "hooks.json"
       /\ \/ rel[2] \in {"witness", "refinery"} /\ rel[3] = "rig"
          \/ rel[2] \in {"crew", "polecats"} /\ rel[3] # ".cursor"

\* the files of the workspace a pass has to report
StaleFiles ==
    {p \in DOMAIN files :
        /\ IsBelow(townRoot, p)
        /\ \/ WrongShape(Rel(townRoot, p))
           \/ CanonicalShape(Rel(townRoot, p)) /\ checkSettings(FS, p) # <<>>}

FindingPaths == {staleSettings[i].path : i \in Findings}

----------------------------------------------------------------------------
(* C13..C14: the report of Run *)

\* C13: Run returns OK exactly when it cached no finding, and then without
\* details; otherwise it returns Error, the count of the message is the
\* number of cached findings and details holds one line per finding, in
\* order.  Right after Run the findings are exactly the wrong-location files
\* and the incomplete canonical files of the workspace: a complete canonical
\* artifact has no finding and no detail line.
C13_ReportMatchesFindings ==
    result.status # "none"
    => /\ result.status \in {StatusOK, StatusError}
       /\ result.status = StatusOK <=> staleSettings = <<>>
       /\ result.status = StatusOK => result.details = <<>>
       /\ result.status = StatusError
          => /\ result.count = Len(staleSettings)
             /\ Len(result.details) = Len(staleSettings)
             /\ \A i \in Findings : result.details[i].path = staleSettings[i].path
       /\ lastOp = "run"
          => /\ FindingPaths = StaleFiles
             /\ \A i, j \in Findings : staleSettings[i].path = staleSettings[j].path => i = j

\* a Run over a complete canonical artifact and an incomplete one
C13_Witness ==
    /\ lastOp = "run"
    /\ result.status = StatusError
    /\ result.count = 1
    /\ Len(result.details) = 1
    /\ \E p \in DOMAIN files :
          /\ CanonicalShape(Rel(townRoot, p))
          /\ checkSettings(FS, p) = <<>>
          /\ p \notin FindingPaths
    /\ \E i \in Findings : staleSettings[i].missing = <<"stop hook">>

\* C14: in an Error report the fix hint is the manual-review hint if and only
\* if some finding of the pass is wrong-location with status tracked-modified;
\* otherwise it is the automated-fix hint.
C14_HintFollowsModifiedFindings ==
    result.status = StatusError
    => /\ result.fixHint \in {HintFix, HintManual}
       /\ result.fixHint = HintManual
          <=> \E i \in Findings :
                 /\ staleSettings[i].wrongLocation
                 /\ staleSettings[i].gitStatus = gitStatusTrackedModified

\* a Run over a tracked-modified wrong-location file and another finding that
\* can be fixed
C14_Witness ==
    /\ lastOp = "run"
    /\ result.status = StatusError
    /\ result.fixHint = HintManual
    /\ \E i \in Findings :
          staleSettings[i].wrongLocation /\ staleSettings[i].gitStatus = gitStatusTrackedModified
    /\ \E i \in Findings :
          staleSettings[i].wrongLocation /\ staleSettings[i].gitStatus = gitStatusUntracked

----------------------------------------------------------------------------
(* Content validation: workspaces whose canonical artifacts hold arbitrary   *)
(* documents                                                                 *)

\* a hook list holds at most this many entries
MaxEntries == 2

\* a key that is not present
Absent == [t |-> "absent", v |-> 0]

\* the object with the keys of kv that are present
Obj(kv) == [k \in {key \in DOMAIN kv : kv[key] # Absent} |-> kv[k]]

\* the entries of a hook list: not an object, an object without "command",
\* an object with "command"
EntryKinds == {JStr("x"), JMap("matcher" :> JStr("m")), HookEntry("hook.sh")}

HookLists == UNION {[1..n -> EntryKinds] : n \in 0..MaxEntries}

\* the values of one hook name: absent, not a list, or a list
HookValues ==
    {Absent, JStr("x"), JNull, HookEntry("hook.sh")} \cup {JList(l) : l \in HookLists}

\* the values of "hooks": absent, not a mapping, or a mapping of the two
\* required hook names and another one
HooksValues ==
    {Absent, JStr("x"), JNull, JList(<<>>)}
    \cup {JMap(Obj([beforeSubmitPrompt |-> b, stop |-> st, afterFileEdit |-> e])) :
             b \in HookValues, st \in HookValues,
             e \in {Absent, JList(<<HookEntry("fmt.sh")>>)}}

\* the JSON objects a settings file can hold
Documents ==
    {JMap(Obj([version |-> ver, hooks |-> h, editor |-> ex])) :
        ver \in {Absent, JNum(1), JNull}, h \in HooksValues, ex \in {Absent, JStr("vim")}}

\* contents that are not a JSON object
NonObjects == {NotJSON, JList(<<>>), JStr("x"), JNum(1)}

SettingsFile(data) == [readable |-> TRUE, data |-> data, vcs |-> VcsNotInRepo]

\* a settings file os.ReadFile fails on
UnreadableFile == [readable |-> FALSE, data |-> ValidSettings, vcs |-> VcsNotInRepo]

ContentRoot == <<"home", "gt">>

MayorHooks == Join(ContentRoot, <<"mayor", ".cursor", "hooks.json">>)
CrewHooks == Join(ContentRoot, <<"rig1", "crew", ".cursor", "hooks.json">>)

\* the files of a workspace with damaged and intact artifacts side by side
DamagedOrPlain ==
    {UnreadableFile, SettingsFile(ValidSettings), SettingsFile(SettingsMissingStop)}
    \cup {SettingsFile(d) : d \in NonObjects \cup {JNull}}

\* one canonical artifact holding any document, or two canonical artifacts of
\* which any may be damaged
InitContent ==
    /\ townRoot = ContentRoot
    /\ \/ \E d \in Documents : files = (MayorHooks :> SettingsFile(d))
       \/ \E f1 \in DamagedOrPlain, f2 \in DamagedOrPlain :
             files = (MayorHooks :> f1) @@ (CrewHooks :> f2)
    /\ dirs = Ancestors(ContentRoot) \cup {ContentRoot}
              \cup UNION {Ancestors(p) : p \in DOMAIN files}
    /\ sessions = AllSessions
    /\ staleSettings = <<>>
    /\ result = NoResult
    /\ fixOut = NoFix
    /\ lastOp = "none"
    /\ prevFix = NoPrevFix
    /\ OtherIdle

SpecContent == InitContent /\ [][Run]_vars

\* the finding cached for the file p: its missing list, empty when p has no
\* finding
MissingOf(p) ==
    IF p \in FindingPaths
    THEN staleSettings[CHOOSE i \in Findings : staleSettings[i].path = p].missing
    ELSE <<>>

\* the detail line of the finding of the file p
DetailOf(p) == result.details[CHOOSE i \in Findings : staleSettings[i].path = p]

Elems(seq) == {seq[i] : i \in 1..Len(seq)}

\* the hook is present, a list, not empty, and has an entry that is an object
\* carrying a command key
HookUsable(hooks, name) ==
    /\ name \in DOMAIN hooks
    /\ hooks[name].t = "list"
    /\ hooks[name].v # <<>>
    /\ \E e \in Elems(hooks[name].v) : e.t = "map" /\ "command" \in DOMAIN e.v

----------------------------------------------------------------------------
(* C15..C16: the content validator *)

\* C15: for a canonical artifact holding a JSON object, after Run the missing
\* list of its finding holds "version" iff the version key is absent, "hooks"
\* (and no per-hook element) iff hooks is absent or not a mapping, and
\* otherwise "beforeSubmitPrompt hook" / "stop hook" iff that hook is absent,
\* not a list, empty or without an entry carrying a command key; nothing else
\* and nothing twice, in that order; the artifact has a finding and a detail
\* line naming these elements iff the list is not empty.
C15_MissingListIsExact ==
    lastOp = "run"
    => \A p \in DOMAIN files :
          (CanonicalShape(Rel(townRoot, p)) /\ files[p].readable /\ files[p].data.t = "map")
          => LET doc == files[p].data.v
                 missing == MissingOf(p)
                 hooksIsMap == "hooks" \in DOMAIN doc /\ doc["hooks"].t = "map"
             IN  /\ p \in FindingPaths <=> missing # <<>>
                 /\ p \in FindingPaths => DetailOf(p).missing = missing
                 /\ "version" \in Elems(missing) <=> "version" \notin DOMAIN doc
                 /\ "hooks" \in Elems(missing) <=> ~hooksIsMap
                 /\ ~hooksIsMap => Elems(missing) \subseteq {"version", "hooks"}
                 /\ hooksIsMap
                    => /\ "beforeSubmitPrompt hook" \in Elems(missing)
                          <=> ~HookUsable(doc["hooks"].v, "beforeSubmitPrompt")
                       /\ "stop hook" \in Elems(missing)
                          <=> ~HookUsable(doc["hooks"].v, "stop")
                 /\ Elems(missing) \subseteq
                       {"version", "hooks", "beforeSubmitPrompt hook", "stop hook"}
                 /\ \A i, j \in 1..Len(missing) :
                       i < j => /\ missing[i] # missing[j]
                                /\ missing[i] = "version" \/ missing[j] = "stop hook"
                                   \/ missing[j] = "hooks"

\* a Run over an artifact with an extra top-level key and an extra hook whose
\* stop list has its command entry after an entry that is not an object:
\* only the beforeSubmitPrompt hook, whose entry carries no command, is missing
C15_Witness ==
    /\ lastOp = "run"
    /\ MayorHooks \in DOMAIN files
    /\ files[MayorHooks].data.t = "map"
    /\ {"editor", "version", "hooks"} \subseteq DOMAIN files[MayorHooks].data.v
    /\ files[MayorHooks].data.v["hooks"].t = "map"
    /\ "afterFileEdit" \in DOMAIN files[MayorHooks].data.v["hooks"].v
    /\ "stop" \in DOMAIN files[MayorHooks].data.v["hooks"].v
    /\ files[MayorHooks].data.v["hooks"].v["stop"] = JList(<<JStr("x"), HookEntry("hook.sh")>>)
    /\ MissingOf(MayorHooks) = <<"beforeSubmitPrompt hook">>

\* C16: after Run a canonical artifact that cannot be read has the finding
\* [unreadable], one whose content does not parse as a JSON object has the
\* finding [invalid JSON] and nothing more; Run returned an Error report with
\* a detail line for it, and every other artifact of the workspace was
\* evaluated as well.
C16_DamagedArtifactIsReported ==
    lastOp = "run"
    => \A p \in DOMAIN files :
          (CanonicalShape(Rel(townRoot, p))
           /\ (~files[p].readable \/ files[p].data.t \in {"garbage", "list", "str", "num"}))
          => /\ result.status = StatusError
             /\ p \in FindingPaths
             /\ MissingOf(p) = IF ~files[p].readable THEN <<"unreadable">>
                               ELSE <<"invalid JSON">>
             /\ DetailOf(p).path = p
             /\ DetailOf(p).missing = MissingOf(p)
             /\ Len(result.details) = Len(staleSettings)
             /\ \A q \in DOMAIN files :
                   (q # p /\ CanonicalShape(Rel(townRoot, q)) /\ files[q].readable)
                   => /\ files[q].data = SettingsMissingStop => MissingOf(q) = <<"stop hook">>
                      /\ files[q].data = ValidSettings => q \notin FindingPaths

\* a Run over an unparseable artifact followed by one that misses the stop
\* hook: two findings
C16_Witness ==
    /\ lastOp = "run"
    /\ result.status = StatusError
    /\ MayorHooks \in DOMAIN files /\ CrewHooks \in DOMAIN files
    /\ files[MayorHooks].data = NotJSON
    /\ MissingOf(MayorHooks) = <<"invalid JSON">>
    /\ MissingOf(CrewHooks) = <<"stop hook">>
    /\ Len(result.details) = 2

----------------------------------------------------------------------------
(* Topology: workspaces with files at every kind of location *)

\* at most this many files exist in a workspace of the topology check
MaxScanFiles == 2

\* the top-level directories that are not rigs
NonRigDirs == {"mayor", "deacon", "daemon", "docs", ".git"}

\* the canonical locations, relative to the root
ScanCanonRel ==
    {HooksRel(<<"mayor">>), HooksRel(<<"deacon">>)}
    \cup {HooksRel(<<"rig1", d>>) : d \in {"witness", "refinery", "crew", "polecats"}}

\* the known-incorrect locations, relative to the root
ScanWrongRel ==
    {HooksRel(<<>>), <<"CLAUDE.md">>}
    \cup {HooksRel(<<"rig1", d, "rig">>) : d \in {"witness", "refinery"}}
    \cup {HooksRel(<<"rig1", d, "m1">>) : d \in {"crew", "polecats"}}

\* locations the scanner has to leave alone: below the shared .cursor
\* directory of a pool, the mayor's CLAUDE.md, and rig-like layouts below a
\* directory that is not a rig
ScanOtherRel ==
    {HooksRel(<<"rig1", d, ".cursor">>) : d \in {"crew", "polecats"}}
    \cup {<<"mayor", "CLAUDE.md">>}
    \cup UNION {{HooksRel(<<x, "witness">>), HooksRel(<<x, "refinery", "rig">>),
                 HooksRel(<<x, "crew", "m1">>), HooksRel(<<x, "polecats">>)}
                : x \in NonRigDirs}

\* the states a file of the topology check starts in: a file at a
\* known-incorrect location holds complete or unparseable content, a file at
\* a canonical location complete or incomplete content, any other file
\* incomplete content
ScanFiles(rel) ==
    IF Last(rel) = "CLAUDE.md"
    THEN {[readable |-> TRUE, data |-> TextData, vcs |-> VcsUntracked]}
    ELSE {[readable |-> TRUE, data |-> d, vcs |-> VcsUntracked] :
             d \in IF rel \in ScanWrongRel THEN {ValidSettings, NotJSON}
                   ELSE IF rel \in ScanCanonRel THEN {ValidSettings, SettingsMissingStop}
                   ELSE {SettingsMissingStop}}

\* the sets of at most n of the locations rels
UpTo(rels, n) == {{pick[i] : i \in 1..n} \ {<<>>} : pick \in [1..n -> rels \cup {<<>>}]}

InitScan ==
    /\ townRoot \in Roots
    /\ \E S \in UpTo(ScanCanonRel \cup ScanWrongRel \cup ScanOtherRel, MaxScanFiles) :
          /\ \E f \in [S -> UNION {ScanFiles(rel) : rel \in S}] :
                /\ \A rel \in S : f[rel] \in ScanFiles(rel)
                /\ files = [p \in {Join(townRoot, rel) : rel \in S} |->
                              f[Rel(townRoot, p)]]
                /\ dirs = Ancestors(townRoot) \cup {townRoot}
                          \cup UNION {Ancestors(Join(townRoot, rel)) : rel \in S}
    /\ sessions = AllSessions
    /\ staleSettings = <<>>
    /\ result = NoResult
    /\ fixOut = NoFix
    /\ lastOp = "none"
    /\ prevFix = NoPrevFix
    /\ OtherIdle

SpecScan == InitScan /\ [][Run]_vars

\* the paths of the findings flagged wrongLocation
WrongLocationPaths == {staleSettings[i].path : i \in {j \in Findings : staleSettings[j].wrongLocation}}

\* the role directories of a rig
RigRoles == {"witness", "refinery", "crew", "polecats"}

----------------------------------------------------------------------------
(* C17..C18: the topology scanner *)

\* C17: after Run the findings flagged wrongLocation are exactly the existing
\* files at the two root paths, at <rig>/witness/rig/ and <rig>/refinery/rig/,
\* and at <rig>/crew/<member>/ and <rig>/polecats/<member>/ for a member
\* other than .cursor, whatever their content; the finding of a file at a
\* canonical path is never flagged wrongLocation.
C17_WrongLocationIsExact ==
    lastOp = "run"
    => /\ WrongLocationPaths = {p \in DOMAIN files : WrongShape(Rel(townRoot, p))}
       /\ \A i \in Findings :
             CanonicalShape(Rel(townRoot, staleSettings[i].path))
             => ~staleSettings[i].wrongLocation

\* a Run over a crew member's artifact with complete content, which is a
\* wrong-location finding, and a file below the pool's shared .cursor
\* directory, which is none
C17_Witness ==
    /\ lastOp = "run"
    /\ \E i \in Findings :
          /\ staleSettings[i].path = Join(townRoot, HooksRel(<<"rig1", "crew", "m1">>))
          /\ staleSettings[i].wrongLocation
          /\ files[staleSettings[i].path].data = ValidSettings
    /\ Join(townRoot, HooksRel(<<"rig1", "crew", ".cursor">>)) \in DOMAIN files
    /\ Len(staleSettings) = 1

\* C18: no finding of Run lies in a witness, refinery, crew or polecats
\* directory of a top-level directory named mayor, deacon, daemon or docs or
\* starting with a dot.
C18_NonRigsAreNotScanned ==
    \A i \in Findings :
       LET rel == Rel(townRoot, staleSettings[i].path)
       IN  ~(Len(rel) >= 2 /\ TopLevelNonRig(rel[1]) /\ rel[2] \in RigRoles)

\* a Run that returned OK over a workspace whose only files are incomplete
\* artifacts in rig-like layouts below docs and .git
C18_Witness ==
    /\ lastOp = "run"
    /\ result.status = StatusOK
    /\ Join(townRoot, HooksRel(<<"docs", "refinery", "rig">>)) \in DOMAIN files
    /\ Join(townRoot, HooksRel(<<".git", "witness">>)) \in DOMAIN files
    /\ \A p \in DOMAIN files : files[p].data = SettingsMissingStop

----------------------------------------------------------------------------
(* Classification: workspaces whose wrong-location file gets any answers     *)
(* from git                                                                  *)

\* every combination of answers of the four git queries
AllVcs ==
    {Vcs(r, l, d, c) : r \in {"ok", "outside", "fail"}, l \in {"listed", "empty", "fail"},
                       d \in {"same", "differs", "fail"}, c \in {"same", "differs", "fail"}}

\* the known-incorrect locations of the classification check
GitWrongRel ==
    {HooksRel(<<>>), <<"CLAUDE.md">>, HooksRel(<<"rig1", "witness", "rig">>),
     HooksRel(<<"rig1", "crew", "m1">>)}

\* one file at a known-incorrect location, alone or next to an incomplete
\* canonical artifact
InitGit ==
    /\ townRoot = ContentRoot
    /\ \E rel \in GitWrongRel, v \in AllVcs, withCanon \in BOOLEAN :
          files = (Join(ContentRoot, rel) :>
                      [readable |-> TRUE,
                       data |-> IF Last(rel) = "CLAUDE.md" THEN TextData ELSE ValidSettings,
                       vcs |-> v])
                  @@ (IF withCanon THEN CrewHooks :> SettingsFile(SettingsMissingStop)
                      ELSE <<>>)
    /\ dirs = Ancestors(ContentRoot) \cup {ContentRoot}
              \cup UNION {Ancestors(p) : p \in DOMAIN files}
    /\ sessions = AllSessions
    /\ staleSettings = <<>>
    /\ result = NoResult
    /\ fixOut = NoFix
    /\ lastOp = "none"
    /\ prevFix = NoPrevFix
    /\ OtherIdle

SpecGit == InitGit /\ [][Run]_vars

\* the queries getGitFileStatus puts to git for answers q, in order: each one
\* is asked only when the answers before it call for it
QueriesAsked(q) ==
    {"revparse"}
    \cup (IF q.revparse = "ok" THEN {"lsfiles"} ELSE {})
    \cup (IF q.revparse = "ok" /\ q.lsfiles = "listed" THEN {"diff"} ELSE {})
    \cup (IF q.revparse = "ok" /\ q.lsfiles = "listed" /\ q.diff = "same"
          THEN {"cached"} ELSE {})

----------------------------------------------------------------------------
(* C19..C20: the version-control status classifier *)

\* C19: after Run a wrong-location finding whose git queries all executed is
\* classified unknown when its directory is in no checkout, untracked when
\* the file is not tracked, tracked-modified when it is tracked and differs in
\* the working tree or in the index, tracked-clean when it is tracked and
\* differs in neither; its detail line carries the message of that
\* classification.
C19_ClassificationFollowsGit ==
    lastOp = "run"
    => \A i \in Findings :
          LET sf == staleSettings[i]
              q == files[sf.path].vcs
              msg == result.details[i].msg
          IN  (sf.wrongLocation /\ \A a \in QueriesAsked(q) : q[a] # "fail")
              => /\ q.revparse = "outside"
                    => /\ sf.gitStatus = gitStatusUnknown
                       /\ msg = "wrong location (inside source repo)"
                 /\ (q.revparse = "ok" /\ q.lsfiles = "empty")
                    => /\ sf.gitStatus = gitStatusUntracked
                       /\ msg = "wrong location, untracked (safe to delete)"
                 /\ (q.revparse = "ok" /\ q.lsfiles = "listed"
                     /\ (q.diff = "differs" \/ q.cached = "differs"))
                    => /\ sf.gitStatus = gitStatusTrackedModified
                       /\ msg = "wrong location, tracked with local modifications (manual review needed)"
                 /\ (q.revparse = "ok" /\ q.lsfiles = "listed"
                     /\ q.diff = "same" /\ q.cached = "same")
                    => /\ sf.gitStatus = gitStatusTrackedClean
                       /\ msg = "wrong location, tracked but unmodified (safe to delete)"
                 /\ result.details[i].path = sf.path

\* a Run over a tracked file whose only difference is staged
C19_Witness ==
    /\ lastOp = "run"
    /\ \E i \in Findings :
          /\ staleSettings[i].wrongLocation
          /\ files[staleSettings[i].path].vcs = VcsStaged
          /\ staleSettings[i].gitStatus = gitStatusTrackedModified
          /\ result.details[i].msg =
                "wrong location, tracked with local modifications (manual review needed)"
    /\ result.fixHint = HintManual

\* C20: when a git query the classifier puts fails to execute, the status of
\* the finding is unknown, and Run returns a report.
C20_QueryFailureIsUnknown ==
    lastOp = "run"
    => /\ result.status \in {StatusOK, StatusError}
       /\ \A i \in Findings :
             (staleSettings[i].wrongLocation
              /\ \E a \in QueriesAsked(files[staleSettings[i].path].vcs) :
                    files[staleSettings[i].path].vcs[a] = "fail")
             => staleSettings[i].gitStatus = gitStatusUnknown

----------------------------------------------------------------------------
(* C21: Run has no effect on the workspace *)

\* the step is a call of Run
IsRunStep == lastOp' = "run"

\* C21: a Run creates, deletes and modifies no file and no directory and
\* terminates no session; a step that adds or removes a file or a directory
\* or ends a session is a Fix.
C21_RunIsReadOnly ==
    [][/\ IsRunStep => (files' = files /\ dirs' = dirs /\ sessions' = sessions)
       /\ (DOMAIN files' # DOMAIN files \/ dirs' # dirs \/ sessions' # sessions)
          => IsFixStep]_vars

\* a Run that reported findings over a workspace that holds files, followed
\* by nothing else: the files are those of the initial workspace
C21_Witness ==
    /\ lastOp = "run"
    /\ result.status = StatusError
    /\ Len(staleSettings) = 2
    /\ FindingPaths = DOMAIN files
    /\ sessions = AllSessions

----------------------------------------------------------------------------
(* C28..C30: Fix on findings that are no longer current *)

\* C28: Fix deletes no wrong-location file that carries local modifications
\* at the moment Fix handles it, whether the modification was made before or
\* after the Run that recorded the finding.
C28_ModifiedAtFixTimeIsKept ==
    [][IsFixStep =>
         \A i \in Findings :
            (/\ staleSettings[i].wrongLocation
             /\ staleSettings[i].path \in DOMAIN files
             /\ getGitFileStatus(FS, staleSettings[i].path) = gitStatusTrackedModified)
            => /\ staleSettings[i].path \in DOMAIN files'
               /\ files'[staleSettings[i].path] = files[staleSettings[i].path]]_vars

\* C29: the town root directory exists after every Fix.
C29_TownRootSurvivesFix ==
    townRoot \in dirs

\* C30: a Fix that directly follows a Fix made right after a Run that
\* returned nil, and in which no operation fails for an outside reason (the only calls that fail are
\* removals of what is not there or not empty), returns nil, changes no file
\* and no directory and terminates no session.
C30_SecondFixIsNoOp ==
    [][(/\ IsFixStep
        /\ lastOp = "fix"
        /\ fixOut.afterRun
        /\ fixOut.errors = <<>>
        /\ \A k \in 1..Len(fixOut'.calls) :
              \/ fixOut'.calls[k].ok
              \/ fixOut'.calls[k].op \in {"rmdir", "has"}
              \/ fixOut'.calls[k].op = "remove" /\ fixOut'.calls[k].arg \notin DOMAIN files)
       => /\ fixOut'.errors = <<>>
          /\ files' = files
          /\ dirs' = dirs
          /\ sessions' = sessions]_vars

----------------------------------------------------------------------------
(* External calls: Run and Fix at the grain of the calls they block in      *)

doctorVars == <<townRoot, files, dirs, sessions, staleSettings, result, fixOut, lastOp, prevFix>>

\* Run has a git query to make: the scan found a wrong-location file
RunQueriesGit ==
    \E i \in 1..Len(findSettingsFiles(FS, townRoot)) :
       findSettingsFiles(FS, townRoot)[i].wrongLocation

\* Fix has a tmux call to make (ListSessions or HasSession)
FixCallsTmux(restart, faults) ==
    \E out \in {FixOutcome(FS, sessions, staleSettings, townRoot, restart, faults)} :
       \E k \in 1..Len(out.calls) : out.calls[k].op \in {"list", "has"}

\* Run is called: without a wrong-location file it runs to its end, with one
\* it starts git with exec.Command and waits in cmd.Run() / cmd.Output()
RunBegin ==
    /\ pending = NoCall
    /\ IF RunQueriesGit
       THEN /\ pending' = [call |-> "git", restart |-> FALSE, faults |-> {}]
            /\ UNCHANGED <<doctorVars, agentVars, seanceVars, hookVars>>
       ELSE Run

\* the git process ends: cmd.Run() returns and Run goes on to its end
GitReturns ==
    /\ pending.call = "git"
    /\ RunEffect
    /\ pending' = NoCall
    /\ UNCHANGED <<agentVars, seanceVars, hookVars>>

\* Fix is called: it runs to its end, or up to the first call of tmux
FixBegin ==
    /\ pending = NoCall
    /\ \E restart \in RestartChoices(staleSettings) :
          \E faults \in SUBSET FaultPoints(FS, staleSettings, townRoot) :
             /\ Cardinality(faults) <= MaxFaults
             /\ IF FixCallsTmux(restart, faults)
                THEN /\ pending' = [call |-> "tmux", restart |-> restart, faults |-> faults]
                     /\ UNCHANGED <<doctorVars, agentVars, seanceVars, hookVars>>
                ELSE Fix(restart, faults)

\* the tmux calls of Fix return and Fix goes on to its end
TmuxReturns ==
    /\ pending.call = "tmux"
    /\ FixEffect(pending.restart, pending.faults)
    /\ pending' = NoCall
    /\ UNCHANGED <<agentVars, seanceVars, hookVars>>

NextCalls == RunBegin \/ GitReturns \/ FixBegin \/ TmuxReturns

\* Fairness: the calls of the tmux wrapper (its code is not part of the
\* sources at hand) return.  Nothing makes a git process end: the code waits
\* for it without a deadline, so no fairness is stated for GitReturns.
SpecCalls == InitGit /\ [][NextCalls]_vars /\ WF_vars(TmuxReturns)

----------------------------------------------------------------------------
(* C22: termination *)

\* C22: Run and Fix always terminate: whenever one of them waits for an
\* external call, it eventually goes on, the call having returned or been
\* abandoned.
C22_RunAndFixTerminate ==
    [](pending.call # "none" => <>(pending.call = "none"))

----------------------------------------------------------------------------
(* The agent package: internal/agent/settings.go *)

\* config.AgentCursor, AgentGemini, AgentCodex, AgentAuggie, AgentAmp
AgentCursor == "cursor"
AgentGemini == "gemini"
AgentCodex == "codex"
AgentAuggie == "auggie"
AgentAmp == "amp"

\* no preset (a nil *AgentPresetInfo)
NilPreset == "nil"

\* the agent names a caller passes
AgentNames ==
    {"", AgentCursor, AgentGemini, AgentCodex, AgentAuggie, AgentAmp, "claude", "unknown-agent"}

\* config.GetAgentPresetByName(name): the presets the lookup can return.  The
\* five agents the switch names are presets of their own name; a name that is
\* no agent has none; whether "claude" still is a preset is left open.
GetAgentPresetByName(name) ==
    IF name \in {AgentCursor, AgentGemini, AgentCodex, AgentAuggie, AgentAmp} THEN {name}
    ELSE IF name = "claude" THEN {NilPreset, "claude"}
    ELSE {NilPreset}

AgentEnsureSettingsAlwaysCursor(fs, workDir, role, agentName, preset, fault) ==
    EnsureSettingsForRole(fs, workDir, role, fault)

\* agent.EnsureSettingsForRole(workDir, role, agentName), preset being what the
\* lookup of the (defaulted) name returned
AgentEnsureSettingsForRole(fs, workDir, role, agentName, preset, fault) ==
    IF preset = NilPreset THEN EnsureSettingsForRole(fs, workDir, role, fault)
    ELSE IF preset = AgentCursor THEN EnsureSettingsForRole(fs, workDir, role, fault)
    ELSE IF preset \in {AgentGemini, AgentCodex, AgentAuggie, AgentAmp}
         THEN [ok |-> TRUE, fs |-> fs]
    ELSE EnsureSettingsForRole(fs, workDir, role, fault)

\* agent.EnsureSettingsForAllAgents(workDir, role)
EnsureSettingsForAllAgents(fs, workDir, role, fault) ==
    EnsureSettingsForRole(fs, workDir, role, fault)

\* the working directories and roles the callers pass
WorkDirs == {Join(townRoot, <<"mayor">>), Join(townRoot, <<"rig1", "crew">>)}
WorkRoles == {"mayor", "crew"}

\* the two artifacts of the Cursor settings in a working directory
RulesIn(workDir) == Join(workDir, <<".cursor", "rules", "gastown.mdc">>)
HooksIn(workDir) == Join(workDir, <<".cursor", "hooks.json">>)

\* a workspace in which each working directory has none, one or both of the
\* artifacts already, the hooks file complete or not
InitAgent ==
    /\ townRoot \in Roots
    /\ \E S \in SUBSET ({RulesIn(w) : w \in WorkDirs} \cup {HooksIn(w) : w \in WorkDirs}) :
          \E d \in {ValidSettings, SettingsMissingStop} :
             /\ files = [p \in S |-> IF Last(p) = "hooks.json" THEN NewFile(d)
                                     ELSE NewFile(TextData)]
             /\ dirs = Ancestors(townRoot) \cup {townRoot} \cup WorkDirs
                       \cup UNION {Ancestors(w) : w \in WorkDirs}
                       \cup UNION {Ancestors(p) : p \in S}
    /\ sessions = AllSessions
    /\ staleSettings = <<>>
    /\ result = NoResult
    /\ fixOut = NoFix
    /\ lastOp = "none"
    /\ prevFix = NoPrevFix
    /\ OtherIdle

agentFrame ==
    <<townRoot, sessions, staleSettings, result, fixOut, lastOp, prevFix,
      pending, seanceVars, hookVars>>

EnsureForRole ==
    \E workDir \in WorkDirs, role \in WorkRoles, agentName \in AgentNames, fault \in BOOLEAN :
       \E preset \in GetAgentPresetByName(IF agentName = "" THEN "cursor" ELSE agentName) :
          \E out \in {AgentEnsureSettingsForRole(FS, workDir, role, agentName, preset, fault)} :
             /\ files' = out.fs.files
             /\ dirs' = out.fs.dirs
             /\ ensureOut' = [fn |-> "role", workDir |-> workDir, role |-> role,
                              agentName |-> agentName, ok |-> out.ok]
             /\ UNCHANGED agentFrame

EnsureForAll ==
    \E workDir \in WorkDirs, role \in WorkRoles, fault \in BOOLEAN :
       \E out \in {EnsureSettingsForAllAgents(FS, workDir, role, fault)} :
          /\ files' = out.fs.files
          /\ dirs' = out.fs.dirs
          /\ ensureOut' = [fn |-> "all", workDir |-> workDir, role |-> role,
                           agentName |-> "", ok |-> out.ok]
          /\ UNCHANGED agentFrame

NextAgent == EnsureForRole \/ EnsureForAll

SpecAgent == InitAgent /\ [][NextAgent]_vars

\* a step that is a call of the agent package
IsEnsureStep == ensureOut' # ensureOut \/ files' # files \/ dirs' # dirs

----------------------------------------------------------------------------
(* C23, C24: which agents get Cursor settings *)

\* C23: a call of EnsureSettingsForRole with an empty name, with "cursor" or
\* with a name that is no preset, and every call of EnsureSettingsForAllAgents,
\* provisions the Cursor settings: when it returns nil, the rules file and the
\* hooks file both exist in workDir and nothing that existed is lost.  A call
\* for gemini, codex, auggie or amp returns nil and changes nothing.
C23_CursorFamilyIsProvisioned ==
    [][IsEnsureStep =>
          LET o == ensureOut'
          IN  /\ (o.fn = "all" \/ o.agentName \in {"", AgentCursor, "unknown-agent"})
                  => (o.ok => /\ RulesIn(o.workDir) \in DOMAIN files'
                               /\ HooksIn(o.workDir) \in DOMAIN files'
                               /\ \A p \in DOMAIN files :
                                     p \in DOMAIN files' /\ files'[p] = files[p])
              /\ (o.fn = "role" /\ o.agentName \in {AgentGemini, AgentCodex, AgentAuggie, AgentAmp})
                  => (o.ok /\ files' = files /\ dirs' = dirs)]_vars

\* a call for gemini left an empty working directory empty, and a call for
\* an unknown agent filled one
C23_Witness ==
    /\ ensureOut.fn = "role" /\ ensureOut.agentName = "unknown-agent" /\ ensureOut.ok
    /\ RulesIn(ensureOut.workDir) \in DOMAIN files
    /\ HooksIn(ensureOut.workDir) \in DOMAIN files
    /\ \E w \in WorkDirs : w # ensureOut.workDir /\ RulesIn(w) \notin DOMAIN files

\* C24: a call of EnsureSettingsForRole for "claude" is a no-op: it returns
\* nil and creates neither the Cursor rules file nor the hooks file.
C24_ClaudeIsNoOp ==
    [][(IsEnsureStep /\ ensureOut'.fn = "role" /\ ensureOut'.agentName = "claude") =>
          /\ ensureOut'.ok
          /\ RulesIn(ensureOut'.workDir) \notin DOMAIN files
                => RulesIn(ensureOut'.workDir) \notin DOMAIN files'
          /\ HooksIn(ensureOut'.workDir) \notin DOMAIN files
                => HooksIn(ensureOut'.workDir) \notin DOMAIN files']_vars

----------------------------------------------------------------------------
(* The seance listing: internal/cmd/seance.go (runSeanceList, discoverSessions) *)

\* the lines the events file holds at most
MaxEvents == 3

\* events.TypeSessionStart
TypeSessionStart == "session_start"

\* a line that is no JSON object of the event's shape
BadLine == [type |-> "unparseable", ts |-> <<>>, actor |-> <<>>, session_id |-> 0]

\* the timestamps of events: strings of one format and width, here two digits
Timestamps == {<<0, 9>>, <<1, 0>>, <<1, 1>>}

\* the instant a timestamp denotes
TimeOf(ts) == ts[1] * 10 + ts[2]

\* actors, as strings of characters: rig, "/", role
Actors == {<<"a", "/", "B">>, <<"b", "/", "b">>}

\* the --role and --rig flags given (<<>> is the flag left out)
RoleFilters == {<<>>, <<"B">>}
RigFilters == {<<>>, <<"a", "/">>}

\* the --recent flag given: no limit, and limits the matching events can exceed
RecentChoices == {0, 1, 2}

\* the lines a hook or another writer appends as line number n
LineChoices(n) ==
    {BadLine}
    \cup {[type |-> "session_end", ts |-> <<1, 1>>, actor |-> <<"b", "/", "b">>, session_id |-> n]}
    \cup {[type |-> TypeSessionStart, ts |-> t, actor |-> a, session_id |-> n]
             : t \in Timestamps, a \in Actors}

\* strings.ToLower
LowerChar(c) == IF c = "A" THEN "a" ELSE IF c = "B" THEN "b" ELSE c
ToLower(s) == [i \in 1..Len(s) |-> LowerChar(s[i])]

\* strings.Contains
Contains(s, sub) ==
    \E i \in 0..(Len(s) - Len(sub)) : SubSeq(s, i + 1, i + Len(sub)) = sub

\* a > b on Go strings: byte-wise lexicographic order
RECURSIVE StringGreater(_, _)
StringGreater(a, b) ==
    IF a = <<>> THEN FALSE
    ELSE IF b = <<>> THEN TRUE
    ELSE IF a[1] # b[1] THEN a[1] > b[1]
    ELSE StringGreater(Tail(a), Tail(b))

\* sort.Slice(sessions, less) with less(i, j) = Timestamp[i] > Timestamp[j]:
\* the sort is not stable, so every arrangement ordered by less can come out
SortByTimestampDesc(seq) ==
    LET n == Len(seq)
        perms == {f \in [1..n -> 1..n] : \A i, j \in 1..n : i # j => f[i] # f[j]}
    IN  {[i \in 1..n |-> seq[f[i]]] : f \in
            {g \in perms : \A i, j \in 1..n :
                i < j => ~StringGreater(seq[g[j]].ts, seq[g[i]].ts)}}

IsSessionStart(line) == line # BadLine /\ line.type = TypeSessionStart

\* discoverSessions(townRoot): the outcomes it can return
discoverSessions(file) ==
    IF file.state = "missing" THEN {[ok |-> TRUE, sessions |-> <<>>]}
    ELSE IF file.state = "unreadable" THEN {[ok |-> FALSE, sessions |-> <<>>]}
    ELSE {[ok |-> TRUE, sessions |-> s]
             : s \in SortByTimestampDesc(SelectSeq(file.lines, IsSessionStart))}

MatchesEitherFilter(s, role, rig) ==
    \/ role = <<>> /\ rig = <<>>
    \/ role # <<>> /\ Contains(ToLower(s.actor), ToLower(role))
    \/ rig # <<>> /\ Contains(ToLower(s.actor), ToLower(rig))

\* the filter loop of runSeanceList: does session s pass
MatchesFilters(s, role, rig) ==
    /\ role # <<>> => Contains(ToLower(s.actor), ToLower(role))
    /\ rig # <<>> => Contains(ToLower(s.actor), ToLower(rig))

\* the limit of runSeanceList
ApplyLimit(filtered, recent) ==
    IF recent > 0 /\ Len(filtered) > recent THEN SubSeq(filtered, 1, recent) ELSE filtered

\* runSeanceList with flags role, rig, recent, d being what discoverSessions
\* returned
runSeanceList(d, role, rig, recent) ==
    IF ~d.ok THEN [ok |-> FALSE, out |-> <<>>]
    ELSE LET Passes(s) == MatchesFilters(s, role, rig)
         IN  [ok |-> TRUE, out |-> ApplyLimit(SelectSeq(d.sessions, Passes), recent)]

seanceFrame ==
    <<townRoot, files, dirs, sessions, staleSettings, result, fixOut, prevFix,
      pending, agentVars, hookVars>>

\* the events files of at most MaxEvents lines, line n being the n-th written
RECURSIVE EventLines(_)
EventLines(n) ==
    IF n = 0 THEN {<<>>}
    ELSE EventLines(n - 1)
         \cup {Append(ls, line) : ls \in {l \in EventLines(n - 1) : Len(l) = n - 1},
                                  line \in LineChoices(n)}

\* gt seance [--role r] [--rig g] [--recent n]
SeanceList ==
    /\ \E d \in discoverSessions(eventsFile) :
          \E role \in RoleFilters, rig \in RigFilters, recent \in RecentChoices :
             \E o \in {runSeanceList(d, role, rig, recent)} :
                seanceOut' = [called |-> TRUE, role |-> role, rig |-> rig, recent |-> recent,
                              out |-> o.out, ok |-> o.ok]
    /\ lastOp' = "seance"
    /\ UNCHANGED <<eventsFile, seanceFrame>>

InitSeance ==
    /\ townRoot = ContentRoot
    /\ files = <<>>
    /\ dirs = Ancestors(townRoot) \cup {townRoot}
    /\ sessions = AllSessions
    /\ staleSettings = <<>>
    /\ result = NoResult
    /\ fixOut = NoFix
    /\ lastOp = "none"
    /\ prevFix = NoPrevFix
    /\ pending = NoCall
    /\ ensureOut = NoEnsure
    /\ eventsFile \in {MissingEvents, UnreadableEvents}
                        \cup {EventsOf(ls) : ls \in EventLines(MaxEvents)}
    /\ seanceOut = NoListing
    /\ stateDir = NoStateDir
    /\ hookProcs = [p \in Pids |-> IdleHook]
    /\ hookLog = NoHookLog

SpecSeance == InitSeance /\ [][SeanceList]_vars

\* the session_start events of the file whose actor contains, letter case
\* aside, every filter given
MatchingEvents(file, role, rig) ==
    {file.lines[i] : i \in {k \in 1..Len(file.lines) :
        /\ file.lines[k] # BadLine
        /\ file.lines[k].type = TypeSessionStart
        /\ \A f \in {role, rig} \ {<<>>} :
              Contains(ToLower(file.lines[k].actor), ToLower(f))}}

Smaller(a, b) == IF a < b THEN a ELSE b

----------------------------------------------------------------------------
(* C25: the seance listing *)

\* C25: a listing lists only session_start events of the events file whose
\* actor matches every filter given, each once, the most recent first; with
\* --recent N > 0 it lists exactly the N most recent of the matching events
\* (all of them when there are fewer), otherwise all of them.  Unparseable
\* lines are skipped, and a missing events file gives an empty listing and no
\* error.
C25_ListingIsTheMostRecentMatching ==
    lastOp = "seance" =>
       LET o == seanceOut
           M == MatchingEvents(eventsFile, o.role, o.rig)
           L == {o.out[i] : i \in 1..Len(o.out)}
       IN  /\ eventsFile.state = "missing" => (o.ok /\ o.out = <<>>)
           /\ eventsFile.state # "unreadable" => o.ok
           /\ o.ok =>
                /\ L \subseteq M
                /\ Cardinality(L) = Len(o.out)
                /\ \A i, j \in 1..Len(o.out) :
                      i < j => TimeOf(o.out[i].ts) >= TimeOf(o.out[j].ts)
                /\ Len(o.out) = IF o.recent > 0 THEN Smaller(o.recent, Cardinality(M))
                                ELSE Cardinality(M)
                /\ \A e \in M \ L : \A l \in L : TimeOf(e.ts) <= TimeOf(l.ts)

\* a listing with both filters and a limit, over a file with an unparseable
\* line, that left out an older matching event
C25_Witness ==
    /\ lastOp = "seance" /\ seanceOut.ok
    /\ seanceOut.role # <<>> /\ seanceOut.rig # <<>> /\ seanceOut.recent = 1
    /\ Len(seanceOut.out) = 1
    /\ Cardinality(MatchingEvents(eventsFile, seanceOut.role, seanceOut.rig)) = 2
    /\ \E e \in MatchingEvents(eventsFile, seanceOut.role, seanceOut.rig) :
          TimeOf(e.ts) < TimeOf(seanceOut.out[1].ts)
    /\ \E i \in 1..Len(eventsFile.lines) : eventsFile.lines[i] = BadLine

----------------------------------------------------------------------------
(* The shell hooks: gastown-shell.sh (handle_before, handle_after)          *)
(*                                                                          *)
(* The invocations of one session share STATE_DIR (GT_SESSION_ID is set).   *)
(* Each invocation is a process of its own; a step is one command of the    *)
(* script, and the commands of different invocations interleave.            *)

\* the invocations of each hook considered
MaxBefore == 3
MaxAfter == 10

\* costs are recorded every CostEvery commands
CostEvery == 10

hookFrame ==
    <<townRoot, files, dirs, sessions, staleSettings, result, fixOut, lastOp, prevFix,
      pending, agentVars, seanceVars>>

\* gastown-shell.sh before: a process starts, GT_ROLE set or not
BeforeStart ==
    \E p \in Pids, role \in BOOLEAN :
       /\ hookProcs[p].phase = "idle"
       /\ hookLog.before < MaxBefore
       /\ hookProcs' = [hookProcs EXCEPT ![p] =
                           [phase |-> "before", role |-> role, pc |-> "test", count |-> 0]]
       /\ hookLog' = [hookLog EXCEPT !.before = @ + 1]
       /\ UNCHANGED <<stateDir, hookFrame>>

\* [ -z "$GT_ROLE" ] and [ ! -f "$STATE_DIR/mail-checked" ]; where the process
\* has nothing to do it prints the permission and ends
BeforeTest ==
    \E p \in Pids :
       /\ hookProcs[p].phase = "before" /\ hookProcs[p].pc = "test"
       /\ IF hookProcs[p].role /\ ~stateDir.mailChecked
          THEN /\ hookProcs' = [hookProcs EXCEPT ![p].pc = "mkdir"]
               /\ UNCHANGED hookLog
          ELSE /\ hookProcs' = [hookProcs EXCEPT ![p] = IdleHook]
               /\ hookLog' = [hookLog EXCEPT !.allowed = @ + 1]
       /\ UNCHANGED <<stateDir, hookFrame>>

\* mkdir -p "$STATE_DIR"
BeforeMkdir ==
    \E p \in Pids :
       /\ hookProcs[p].phase = "before" /\ hookProcs[p].pc = "mkdir"
       /\ stateDir' = [stateDir EXCEPT !.exists = TRUE]
       /\ hookProcs' = [hookProcs EXCEPT ![p].pc = "touch"]
       /\ UNCHANGED <<hookLog, hookFrame>>

\* touch "$STATE_DIR/mail-checked"
BeforeTouch ==
    \E p \in Pids :
       /\ hookProcs[p].phase = "before" /\ hookProcs[p].pc = "touch"
       /\ stateDir' = [stateDir EXCEPT !.mailChecked = TRUE]
       /\ hookProcs' = [hookProcs EXCEPT ![p].pc = "launch"]
       /\ UNCHANGED <<hookLog, hookFrame>>

\* gt mail check --inject &, then output_permission
BeforeLaunch ==
    \E p \in Pids :
       /\ hookProcs[p].phase = "before" /\ hookProcs[p].pc = "launch"
       /\ hookLog' = [hookLog EXCEPT !.mail = @ + 1, !.allowed = @ + 1]
       /\ hookProcs' = [hookProcs EXCEPT ![p] = IdleHook]
       /\ UNCHANGED <<stateDir, hookFrame>>

\* gastown-shell.sh after: a process starts; without GT_ROLE it exits at once
AfterStart ==
    \E p \in Pids, role \in BOOLEAN :
       /\ hookProcs[p].phase = "idle"
       /\ hookLog.after < MaxAfter
       /\ hookProcs' = IF role
                       THEN [hookProcs EXCEPT ![p] =
                               [phase |-> "after", role |-> TRUE, pc |-> "mkdir", count |-> 0]]
                       ELSE hookProcs
       /\ hookLog' = [hookLog EXCEPT !.after = @ + 1]
       /\ UNCHANGED <<stateDir, hookFrame>>

\* mkdir -p "$STATE_DIR"
AfterMkdir ==
    \E p \in Pids :
       /\ hookProcs[p].phase = "after" /\ hookProcs[p].pc = "mkdir"
       /\ stateDir' = [stateDir EXCEPT !.exists = TRUE]
       /\ hookProcs' = [hookProcs EXCEPT ![p].pc = "read"]
       /\ UNCHANGED <<hookLog, hookFrame>>

\* count=$(cat "$STATE_DIR/cmd-count" 2>/dev/null || echo "0"); count=$((count + 1)):
\* a missing file gives 0, and so does a file that is empty
AfterRead ==
    \E p \in Pids :
       /\ hookProcs[p].phase = "after" /\ hookProcs[p].pc = "read"
       /\ hookProcs' = [hookProcs EXCEPT
                           ![p].count = (IF stateDir.cmdFile = "written"
                                         THEN stateDir.cmdCount ELSE 0) + 1,
                           ![p].pc = "open"]
       /\ UNCHANGED <<stateDir, hookLog, hookFrame>>

\* > "$STATE_DIR/cmd-count": the redirection creates or truncates the file
AfterOpen ==
    \E p \in Pids :
       /\ hookProcs[p].phase = "after" /\ hookProcs[p].pc = "open"
       /\ stateDir' = [stateDir EXCEPT !.cmdFile = "empty", !.cmdCount = 0]
       /\ hookProcs' = [hookProcs EXCEPT ![p].pc = "write"]
       /\ UNCHANGED <<hookLog, hookFrame>>

\* echo "$count" writes the file; then gt costs record & when count is a
\* multiple of CostEvery, and exit 0
AfterWrite ==
    \E p \in Pids :
       /\ hookProcs[p].phase = "after" /\ hookProcs[p].pc = "write"
       /\ stateDir' = [stateDir EXCEPT !.cmdFile = "written", !.cmdCount = hookProcs[p].count]
       /\ hookLog' = [hookLog EXCEPT
                         !.counted = @ + 1,
                         !.costs = IF hookProcs[p].count % CostEvery = 0 THEN @ + 1 ELSE @]
       /\ hookProcs' = [hookProcs EXCEPT ![p] = IdleHook]
       /\ UNCHANGED hookFrame

InitHook ==
    /\ townRoot = ContentRoot
    /\ files = <<>>
    /\ dirs = Ancestors(townRoot) \cup {townRoot}
    /\ sessions = AllSessions
    /\ staleSettings = <<>>
    /\ result = NoResult
    /\ fixOut = NoFix
    /\ lastOp = "none"
    /\ prevFix = NoPrevFix
    /\ OtherIdle

NextHook ==
    \/ BeforeStart \/ BeforeTest \/ BeforeMkdir \/ BeforeTouch \/ BeforeLaunch
    \/ AfterStart \/ AfterMkdir \/ AfterRead \/ AfterOpen \/ AfterWrite

SpecHook == InitHook /\ [][NextHook]_vars

\* no after hook is between reading the counter and writing it
NoAfterHookRunning == \A p \in Pids : hookProcs[p].phase # "after"

\* the command counter of the session
CounterValue == IF stateDir.cmdFile = "written" THEN stateDir.cmdCount ELSE 0

----------------------------------------------------------------------------
(* C26, C27: the shell hooks of one session *)

\* C26: over any interleaving of before-hook invocations of one session the
\* mail check is launched at most once, and only with the marker of the
\* session in place.
C26_MailCheckLaunchedOnce ==
    /\ hookLog.mail <= 1
    /\ hookLog.mail = 1 => stateDir.mailChecked

\* C27: every after-hook invocation with GT_ROLE set adds exactly one to the
\* command counter, and costs are recorded exactly once per CostEvery such
\* invocations: whenever no after hook is running, the counter is the number
\* of invocations that completed and the recordings are that number divided
\* by CostEvery.
C27_CounterCountsEveryInvocation ==
    NoAfterHookRunning =>
       /\ CounterValue = hookLog.counted
       /\ hookLog.costs = hookLog.counted \div CostEvery

====
